---- MODULE Spec2Model ----
(***************************************************************************)
(* SmoothBible: the Data store (src/src/data.js, class Data), the search   *)
(* worker (src/src/data.js, lines 267-343) and the owning context's        *)
(* wiring of the two (src/src/app.js, setupSearch / renderChapter).        *)
(*                                                                         *)
(* A text is a sequence of one-character strings.  A JavaScript Map is a   *)
(* function whose DOMAIN is the set of its keys.  A key `${book}:${ch}` is *)
(* the pair <<book, ch>>.  null/undefined is NULL, Number's NaN is NaN.    *)
(***************************************************************************)
EXTENDS Integers, Sequences, FiniteSets, TLC

\* null/undefined where a string is expected
NULL == "null"
\* Number's NaN (and a missing number: Number(undefined) is NaN); an integer no
\* chapter, verse or id of the model takes, kept apart from them by IsFinite
NaN  == 0 - 1000
\* an optional value (null or a value) is a sequence of length 0 or 1
None == <<>>
Some(x) == <<x>>

\* ---------------------------------------------------------------- bounds
\* search messages the page sends in one run
MaxSearches == 2
\* limits 0..MaxLimit are sent with a search message
MaxLimit == 2
\* hashchange navigations (route -> renderChapter) in one run
MaxNav == 1

\* ------------------------------------------------------------ Canon Table
\* BUILT_IN_CANON cut to its first two entries, chapter counts scaled down.
BUILT_IN_CANON == << <<"Genesis", 2>>, <<"Exodus", 1>> >>

CANON_66 == [i \in 1..Len(BUILT_IN_CANON) |-> BUILT_IN_CANON[i][1]]

\* The value of a row's id field as Number(n) sees it: NaN, or the number
\* wraps * 2^32 + whole + (1/2 if half), whole within the 32-bit range.
\* absent says that the row has no id field at all.
IdValue(wraps, whole, half) ==
  [absent |-> FALSE, nan |-> FALSE, wraps |-> wraps, whole |-> whole, half |-> half]

IdNaN == [absent |-> FALSE, nan |-> TRUE, wraps |-> 0, whole |-> 0, half |-> FALSE]

NoId == [absent |-> TRUE, nan |-> TRUE, wraps |-> 0, whole |-> 0, half |-> FALSE]

\* Number(n) | 0: NaN gives 0; else the fraction is cut off toward zero and
\* the low 32 bits are kept, so the multiples of 2^32 fall away
toInt32(n) ==
  IF n.nan THEN 0
  ELSE IF n.half /\ (n.wraps < 0 \/ (n.wraps = 0 /\ n.whole < 0)) THEN n.whole + 1
  ELSE n.whole

\* const i = Number(n) | 0; (i >= 1 && i <= 66) ? CANON_66[i-1] : null
bookFromId(n) ==
  LET i == toInt32(n)
  IN IF i >= 1 /\ i <= Len(CANON_66) THEN CANON_66[i] ELSE NULL

\* ------------------------------------------------------- sequence helpers
Range(s) == {s[i] : i \in 1..Len(s)}

RECURSIVE Flat(_)
Flat(ss) == IF ss = <<>> THEN <<>> ELSE Head(ss) \o Flat(Tail(ss))

RECURSIVE FilterSeq(_, _)
\* the members of s that are in the set keep, in the order of s
FilterSeq(s, keep) ==
  IF s = <<>> THEN <<>>
  ELSE IF Head(s) \in keep THEN <<Head(s)>> \o FilterSeq(Tail(s), keep)
       ELSE FilterSeq(Tail(s), keep)

RECURSIVE Dedup(_)
\* first occurrences of s, in order (the key order of a Map filled from s)
Dedup(s) ==
  IF s = <<>> THEN <<>>
  ELSE LET r == Dedup(SubSeq(s, 1, Len(s) - 1))
       IN IF s[Len(s)] \in Range(r) THEN r ELSE Append(r, s[Len(s)])

IsPrefix(s, t) == Len(s) <= Len(t) /\ s = SubSeq(t, 1, Len(s))

MaxOf(S) == CHOOSE m \in S : \A x \in S : x <= m

IsFinite(x) == x # NaN

\* Math.min, Math.max
Min(a, b) == IF a <= b THEN a ELSE b

Max(a, b) == IF a >= b THEN a ELSE b

\* ------------------------------------------------------------------ texts
WS == {" "}

\* String.prototype.toLowerCase on the model's alphabet
LowerChar(ch) ==
  CASE ch = "A" -> "a" [] ch = "B" -> "b" [] ch = "E" -> "e" [] ch = "G" -> "g"
    [] ch = "T" -> "t" [] OTHER -> ch

toLowerCase(s) == [i \in 1..Len(s) |-> LowerChar(s[i])]

\* txt.includes(t)
includes(txt, t) ==
  \E i \in 0..(Len(txt) - Len(t)) : SubSeq(txt, i + 1, i + Len(t)) = t

RECURSIVE SplitWS(_, _)
\* s.split(/\s+/): cur is the piece being read; a run of whitespace is one
\* separator, a leading or trailing run leaves an empty piece
SplitWS(s, cur) ==
  IF s = <<>> THEN <<cur>>
  ELSE IF Head(s) \in WS
       THEN IF Len(s) > 1 /\ s[2] \in WS
            THEN SplitWS(Tail(s), cur)
            ELSE <<cur>> \o SplitWS(Tail(s), <<>>)
       ELSE SplitWS(Tail(s), Append(cur, Head(s)))

RECURSIVE Trim(_)
Trim(s) ==
  IF s = <<>> THEN s
  ELSE IF Head(s) \in WS THEN Trim(Tail(s))
  ELSE IF s[Len(s)] \in WS THEN Trim(SubSeq(s, 1, Len(s) - 1))
  ELSE s

RECURSIVE FilterNonEmpty(_)
FilterNonEmpty(ps) ==
  IF ps = <<>> THEN <<>>
  ELSE IF Head(ps) = <<>> THEN FilterNonEmpty(Tail(ps))
       ELSE <<Head(ps)>> \o FilterNonEmpty(Tail(ps))

\* .slice(0,5)
TokenCap == 5

tokenizeCap4(s) ==
  LET ps == SplitWS(toLowerCase(s), <<>>)
      ts == FilterNonEmpty([i \in 1..Len(ps) |-> Trim(ps[i])])
  IN SubSeq(ts, 1, IF Len(ts) < 4 THEN Len(ts) ELSE 4)

\* s.toLowerCase().split(/\s+/).map(x=>x.trim()).filter(Boolean).slice(0,5)
tokenize(s) ==
  LET ps == SplitWS(toLowerCase(s), <<>>)
      ts == FilterNonEmpty([i \in 1..Len(ps) |-> Trim(ps[i])])
  IN SubSeq(ts, 1, IF Len(ts) < TokenCap THEN Len(ts) ELSE TokenCap)

\* let ok = true; for(const t of tokens){ if(!txt.includes(t)){ ok=false; break; } }
verseMatches(text, tokens) ==
  \A i \in 1..Len(tokens) : includes(toLowerCase(text), tokens[i])

\* -------------------------------------------------------------- highlight
\* c=>({ '&':'&amp;','<':'&lt;','>':'&gt;','"':'&quot;' }[c])
escChar(c) ==
  CASE c = "&"  -> <<"&", "a", "m", "p", ";">>
    [] c = "<"  -> <<"&", "l", "t", ";">>
    [] c = ">"  -> <<"&", "g", "t", ";">>
    [] c = "\"" -> <<"&", "q", "u", "o", "t", ";">>
    [] OTHER    -> <<c>>

\* s.replace(/[&<>"]/g, ...)
esc(s) == Flat([i \in 1..Len(s) |-> escChar(s[i])])

\* the backslash
Backslash == "\\"

\* the characters of the class in escapeRegExp
RegExpSpecials ==
  {".", "*", "+", "?", "^", "$", "{", "}", "(", ")", "|", "[", "]", Backslash}

\* s.replace(<the class>, '\\$&'): a backslash before each of them
escapeRegExp(s) ==
  Flat([i \in 1..Len(s) |-> IF s[i] \in RegExpSpecials THEN <<Backslash, s[i]>> ELSE <<s[i]>>])

RECURSIVE patternAtoms(_)
\* new RegExp(`(${p})`, 'ig') as the characters it matches one by one: a
\* backslash makes the next character literal, a bare dot matches any
\* character, every other character of the model's alphabet is literal
patternAtoms(p) ==
  IF p = <<>> THEN <<>>
  ELSE IF Head(p) = Backslash /\ Len(p) > 1
       THEN <<[any |-> FALSE, ch |-> p[2]]>> \o patternAtoms(SubSeq(p, 3, Len(p)))
       ELSE <<[any |-> (Head(p) = "."), ch |-> Head(p)]>> \o patternAtoms(Tail(p))

\* the pattern matches at the head of out (flag i: case is ignored)
matchesHead(out, atoms) ==
  /\ Len(atoms) <= Len(out)
  /\ \A j \in 1..Len(atoms) :
       atoms[j].any \/ LowerChar(out[j]) = LowerChar(atoms[j].ch)

MarkOpen == <<"<", "m", "a", "r", "k", ">">>

MarkClose == <<"<", "/", "m", "a", "r", "k", ">">>

RECURSIVE replaceMarked(_, _)
\* out.replace(re, '<mark>$1</mark>') with flag g: the matches are taken from
\* left to right, each after the end of the one before
replaceMarked(out, atoms) ==
  IF out = <<>> \/ atoms = <<>> THEN out
  ELSE IF matchesHead(out, atoms)
       THEN MarkOpen \o SubSeq(out, 1, Len(atoms)) \o MarkClose
              \o replaceMarked(SubSeq(out, Len(atoms) + 1, Len(out)), atoms)
       ELSE <<Head(out)>> \o replaceMarked(Tail(out), atoms)

RECURSIVE highlightFrom(_, _)
\* for(const t of tokens){ ... out = out.replace(re, '<mark>$1</mark>'); }
highlightFrom(out, tokens) ==
  IF tokens = <<>> THEN out
  ELSE highlightFrom(replaceMarked(out, patternAtoms(escapeRegExp(Head(tokens)))),
                     Tail(tokens))

\* highlight(text, tokens)
highlight(text, tokens) == highlightFrom(esc(text), tokens)

\* --------------------------------------------------- leading text markers
\* the pilcrow of /^¶/ is written "%" in the model's alphabet
Pilcrow == "%"

RECURSIVE DropWhile(_, _)
DropWhile(s, S) ==
  IF s # <<>> /\ Head(s) \in S THEN DropWhile(Tail(s), S) ELSE s

\* if(/^¶/.test(text)){ paragraphStart = true; text = text.replace(/^¶\s*/, ''); }
\* if(text.startsWith('#')){ paragraphStart = true; text = text.replace(/^#+\s*/, ''); }
stripMarkers(text, start) ==
  LET p1 == text # <<>> /\ Head(text) = Pilcrow
      t1 == IF p1 THEN DropWhile(Tail(text), WS) ELSE text
      p2 == t1 # <<>> /\ Head(t1) = "#"
      t2 == IF p2 THEN DropWhile(DropWhile(t1, {"#"}), WS) ELSE t1
  IN [text |-> t2, paragraphStart |-> (start \/ p1 \/ p2)]

\* ------------------------------------------------------------------ sort
\* the comparator (a,b)=>a.verse-b.verse; a NaN difference counts as 0
cmpLess(a, b) == IsFinite(a.verse) /\ IsFinite(b.verse) /\ a.verse < b.verse

RECURSIVE InsertSorted(_, _)
InsertSorted(s, v) ==
  IF s = <<>> THEN <<v>>
  ELSE IF cmpLess(v, s[Len(s)])
       THEN Append(InsertSorted(SubSeq(s, 1, Len(s) - 1), v), s[Len(s)])
       ELSE Append(s, v)

RECURSIVE StableSort(_)
StableSort(s) ==
  IF s = <<>> THEN <<>>
  ELSE InsertSorted(StableSort(SubSeq(s, 1, Len(s) - 1)), s[Len(s)])

Perms(s) ==
  {[i \in 1..Len(s) |-> s[f[i]]] :
     f \in {g \in [1..Len(s) -> 1..Len(s)] : \A i, j \in 1..Len(s) : i # j => g[i] # g[j]}}

\* Array.prototype.sort((a,b)=>a.verse-b.verse).  With finite verse numbers
\* the comparator is consistent and the (stable) sorted order is the one
\* outcome.  With a NaN verse number the comparator is inconsistent and the
\* order is implementation-defined: any order in which no neighbour pair is
\* strictly descending can come out (an engine that finds the array to be one
\* ascending run returns it unchanged).
SortOutcomes(arr) ==
  IF \A i \in 1..Len(arr) : IsFinite(arr[i].verse)
  THEN {StableSort(arr)}
  ELSE {p \in Perms(arr) : \A i \in 1..(Len(p) - 1) : ~cmpLess(p[i + 1], p[i])}

\* ------------------------------------------------ single-source ingestion
\* A decoded payload is [t |-> "array", rows |-> ...], [t |-> "object",
\* fields |-> <<[k, arr, v], ...>>] (own properties in order; arr says whether
\* the value v is an array) or [t |-> "other"].
\* A row is [name, bid, chapter, verse, text]: name is the value of
\* r.book_name ?? r.bookName ?? r.name ?? r.Book ?? r.BOOK ?? null, bid that of
\* the id chain (an id value), chapter and verse are Number(<chain>).
ArrayField(obj, k) ==
  \E i \in 1..Len(obj.fields) : obj.fields[i].k = k /\ obj.fields[i].arr

FieldValue(obj, k) ==
  obj.fields[CHOOSE i \in 1..Len(obj.fields) : obj.fields[i].k = k].v

RECURSIVE ArrayValues(_)
ArrayValues(fs) ==
  IF fs = <<>> THEN <<>>
  ELSE (IF Head(fs).arr THEN <<Head(fs).v>> ELSE <<>>) \o ArrayValues(Tail(fs))

firstArrayInObject(obj) ==
  IF obj.t # "object" THEN <<>>
  ELSE IF ArrayField(obj, "data")   THEN FieldValue(obj, "data")
  ELSE IF ArrayField(obj, "verses") THEN FieldValue(obj, "verses")
  ELSE IF ArrayField(obj, "items")  THEN FieldValue(obj, "items")
  ELSE IF ArrayField(obj, "text")   THEN FieldValue(obj, "text")
  ELSE Flat(ArrayValues(obj.fields))

\* lines 160-175: one row to a verse, or None when the row is discarded
rowToVerse(r) ==
  LET book == IF r.name # NULL /\ r.name # ""
              THEN r.name
              ELSE IF r.bid.absent THEN NULL
              ELSE bookFromId(r.bid)
  IN IF book = NULL \/ ~IsFinite(r.chapter) \/ ~IsFinite(r.verse)
     THEN None
     ELSE LET st == stripMarkers(r.text, FALSE)
          IN Some([book |-> book, chapter |-> r.chapter, verse |-> r.verse,
                   text |-> st.text, paragraphStart |-> st.paragraphStart])

RECURSIVE rowsToVerses(_)
rowsToVerses(arr) ==
  IF arr = <<>> THEN <<>>
  ELSE rowToVerse(Head(arr)) \o rowsToVerses(Tail(arr))

RECURSIVE SelectSeq2(_, _, _)
\* the verses of book b and chapter c, in payload order (bm.get(c))
SelectSeq2(vs, b, c) ==
  IF vs = <<>> THEN <<>>
  ELSE (IF Head(vs).book = b /\ Head(vs).chapter = c THEN <<Head(vs)>> ELSE <<>>)
       \o SelectSeq2(Tail(vs), b, c)

orderedBooksEncounter(byBook) == byBook

\* lines 194-197: the books of the Canon Table that are present, in its order,
\* then every other book in the key order of byBook
orderedBooks(byBook) ==
  LET canonPart == FilterSeq(CANON_66, Range(byBook))
  IN canonPart \o FilterSeq(byBook, Range(byBook) \ Range(canonPart))

\* lines 151-153: the rows of a decoded payload
payloadRows(json) ==
  IF json.t = "array" THEN json.rows
  ELSE IF json.t = "object" THEN firstArrayInObject(json)
  ELSE <<>>

noUsableVersesNever(verses) == FALSE

\* line 178: if(!verses.length), the throw that comes before every assignment
\* to this.books, this._bookChapters and this._singleByRef
noUsableVerses(verses) == verses = <<>>

\* _ingestSingle(json): [ok |-> FALSE] when it throws, else the fields it sets
ingestSingleResult(json, oldChapters) ==
  LET arr    == payloadRows(json)
      verses == rowsToVerses(arr)
      byBook == Dedup([i \in 1..Len(verses) |-> verses[i].book])
      present == Range(byBook)
      ordered == orderedBooks(byBook)
      keys   == {<<verses[i].book, verses[i].chapter>> : i \in 1..Len(verses)}
      counts == [b \in present |->
                   MaxOf({verses[i].chapter : i \in {j \in 1..Len(verses) : verses[j].book = b}})]
  IN IF noUsableVerses(verses)
     THEN [ok |-> FALSE]
     ELSE [ok |-> TRUE,
           books |-> ordered,
           bookChapters |-> [b \in (DOMAIN oldChapters) \cup present |->
                               IF b \in present THEN counts[b] ELSE oldChapters[b]],
           singleByRef |-> [k \in keys |-> StableSort(SelectSeq2(verses, k[1], k[2]))]]

\* -------------------------------------------------- split-source payloads
\* a chapter object without chapter/number/c field
Missing == 0 - 2000

\* A decoded per-book payload jb is
\*   [t |-> "A", declared, chapters |-> <<[chapter, verses |-> <<[verse, text, header]>>]>>]
\*   [t |-> "B", declared, entries |-> <<[k, obj, v |-> <<[digits, verse, text]>>]>>]
\* chapter: Number(ch.chapter ?? ch.number ?? ch.c) or Missing; verse:
\* Number(v.verse ?? v.v ?? v.number); k: Number(key); obj: the value is an
\* object; digits: /^\d+$/.test(vk); declared: Number(jb.chapterCount).
verseA(book, cnum, v) ==
  LET st == stripMarkers(v.text, v.header)
  IN [book |-> book, chapter |-> cnum, verse |-> v.verse,
      text |-> st.text, paragraphStart |-> st.paragraphStart]

MapSet(m, k, v) == [x \in (DOMAIN m) \cup {k} |-> IF x = k THEN v ELSE m[x]]

RECURSIVE normalizeA(_, _, _)
\* lines 220-234: the chapter Maps the loop over jb.chapters can end with
normalizeA(book, chs, acc) ==
  IF chs = <<>> THEN {acc}
  ELSE LET ch   == Head(chs)
           cnum == IF ch.chapter = Missing THEN Cardinality(DOMAIN acc) + 1
                   ELSE ch.chapter
           arr  == [i \in 1..Len(ch.verses) |-> verseA(book, cnum, ch.verses[i])]
       IN UNION {normalizeA(book, Tail(chs), MapSet(acc, cnum, sorted)) :
                   sorted \in SortOutcomes(arr)}

RECURSIVE versesB(_, _, _)
versesB(book, cnum, vs) ==
  IF vs = <<>> THEN <<>>
  ELSE (IF Head(vs).digits
        THEN LET st == stripMarkers(Head(vs).text, FALSE)
             IN <<[book |-> book, chapter |-> cnum, verse |-> Head(vs).verse,
                   text |-> st.text, paragraphStart |-> st.paragraphStart]>>
        ELSE <<>>) \o versesB(book, cnum, Tail(vs))

RECURSIVE normalizeB(_, _, _)
\* lines 236-253
normalizeB(book, es, acc) ==
  IF es = <<>> THEN {acc}
  ELSE LET e == Head(es)
       IN IF IsFinite(e.k) /\ e.obj
          THEN UNION {normalizeB(book, Tail(es), MapSet(acc, e.k, sorted)) :
                        sorted \in SortOutcomes(versesB(book, e.k, e.v))}
          ELSE normalizeB(book, Tail(es), acc)

\* chapters.size || Number(jb?.chapterCount) || this._bookChapters.get(book) || 1
perBookCount(chapters, jb, known) ==
  IF Cardinality(DOMAIN chapters) # 0 THEN Cardinality(DOMAIN chapters)
  ELSE IF IsFinite(jb.declared) /\ jb.declared # 0 THEN jb.declared
  ELSE IF known # None /\ IsFinite(known[1]) /\ known[1] # 0 THEN known[1]
  ELSE 1

\* line 222: ch.chapter on a null member of jb.chapters throws a TypeError
normalizeThrows(jb) ==
  jb.t = "A" /\ \E i \in 1..Len(jb.chapters) : jb.chapters[i].nul

\* _normalizePerBook(book, jb): the { chapterCount, chapters } it can return
normalizePerBook(book, jb, known) ==
  LET maps == IF jb.t = "A" THEN normalizeA(book, jb.chapters, <<>>)
              ELSE normalizeB(book, jb.entries, <<>>)
  IN {[chapterCount |-> perBookCount(m, jb, known), chapters |-> m] : m \in maps}

\* ------------------------------------------------------------- the inputs
\* a row with a name field, and with the id field bid when bid is a number
Row(name, bid, chapter, verse, text) ==
  [name |-> name, bid |-> IF bid = NaN THEN NoId ELSE IdValue(0, bid, FALSE),
   chapter |-> chapter, verse |-> verse, text |-> text]

\* a row without a name field: {b: id, c: chapter, v: verse, t: text}
IdRow(id, chapter, verse, text) ==
  [name |-> NULL, bid |-> id, chapter |-> chapter, verse |-> verse, text |-> text]

\* a bulk payload: an array of rows, out of verse order, one book by id, one
\* book outside the Canon Table, one row without chapter
PayloadRows ==
  << Row("Genesis", NaN, 1, 2, <<"b", " ", "A">>),
     Row("Enoch",   NaN, 1, 1, <<"a">>),
     Row("Genesis", NaN, 1, 1, <<"%", " ", "a">>),
     Row(NULL,      2,   1, 1, <<"a", "b">>),
     Row("Genesis", NaN, NaN, 1, <<"a">>),
     Row("Genesis", NaN, 2, 1, <<"B">>) >>

PayloadArray  == [t |-> "array", rows |-> PayloadRows]

\* an object payload: the rows are under "verses", another array under
\* "extra"; two books outside the Canon Table, one verse listed twice
ObjectRows ==
  << Row("Exodus", NaN, 1, 2, <<"a", " ", "b">>),
     Row("Tobit",  NaN, 1, 1, <<"a">>),
     Row("Exodus", NaN, 1, 1, <<"#", "a">>),
     Row("Enoch",  NaN, 1, 1, <<"b">>),
     Row("Exodus", NaN, 1, 1, <<"b">>) >>

PayloadObject ==
  [t |-> "object",
   fields |-> << [k |-> "version", arr |-> FALSE, v |-> <<>>],
                 [k |-> "extra",   arr |-> TRUE,  v |-> <<Row("Exodus", NaN, 1, 1, <<"b">>)>>],
                 [k |-> "verses",  arr |-> TRUE,  v |-> ObjectRows] >>]

\* a bulk payload whose rows name their book by id alone: 1, 1.5, 2^32 + 1,
\* 0, the first id past the Canon Table, a text that is no number, 2
IdRows ==
  << IdRow(IdValue(0, 1, FALSE), 1, 1, <<"a">>),
     IdRow(IdValue(0, 1, TRUE),  1, 2, <<"b">>),
     IdRow(IdValue(1, 1, FALSE), 1, 3, <<"a", "b">>),
     IdRow(IdValue(0, 0, FALSE), 1, 4, <<"a">>),
     IdRow(IdValue(0, Len(BUILT_IN_CANON) + 1, FALSE), 1, 5, <<"a">>),
     IdRow(IdNaN, 1, 6, <<"a">>),
     IdRow(IdValue(0, 2, FALSE), 1, 7, <<"b">>) >>

PayloadIds == [t |-> "array", rows |-> IdRows]

\* rows whose field names are unknown: every row is discarded
PayloadUnknown == [t |-> "array", rows |-> <<Row(NULL, NaN, NaN, NaN, <<>>)>>]

\* a payload that is no array and holds none
PayloadScalar == [t |-> "other"]

\* what the element kjv-json holds
InlineSources ==
  {[kind |-> "absent"], [kind |-> "unparsable"]}
    \cup {[kind |-> "json", json |-> j] : j \in {PayloadArray, PayloadUnknown}}

\* what fetch(singleFile) yields: a network error, a status that is not ok,
\* an HTML page, text that is no JSON, JSON
BulkResponses ==
  {[kind |-> "error"], [kind |-> "notok"], [kind |-> "html"], [kind |-> "unparsable"]}
    \cup {[kind |-> "json", json |-> j] : j \in {PayloadObject, PayloadIds, PayloadScalar}}

\* what fetch(canonFile) yields: a network error, a status that is not ok, a
\* decoded payload that is no array, an array of {name, chapters} (one entry
\* declares a negative count), an array that holds a null
CanonResponses ==
  {[kind |-> "error"], [kind |-> "notok"], [kind |-> "other"], [kind |-> "nullentry"],
   [kind |-> "array",
    entries |-> << [name |-> "Genesis", chapters |-> 1],
                   [name |-> "Enoch",   chapters |-> 0 - 1],
                   [name |-> "Tobit",   chapters |-> 1] >>]}

\* the per-book files under perBookDir: Genesis in shape A (one verse object
\* without a verse number, one chapter object without a chapter number),
\* Exodus in shape B (chapters "1" and "3", no chapter "2"), Tobit in shape A
\* with a null in its chapters array; no file for any other book
VerseObj(verse, text) == [verse |-> verse, text |-> text, header |-> FALSE]

ChapterObj(chapter, verses) == [nul |-> FALSE, chapter |-> chapter, verses |-> verses]

NullChapter == [nul |-> TRUE, chapter |-> Missing, verses |-> <<>>]

PerBookFile(book) ==
  IF book = "Genesis"
  THEN Some([t |-> "A", declared |-> NaN,
             chapters |-> << ChapterObj(1, << VerseObj(3, <<"a">>),
                                              VerseObj(NaN, <<"b">>),
                                              VerseObj(1, <<"a", " ", "b">>) >>),
                             ChapterObj(Missing, << VerseObj(1, <<"A">>) >>) >>])
  ELSE IF book = "Exodus"
  THEN Some([t |-> "B", declared |-> 3,
             entries |-> << [k |-> 1, obj |-> TRUE,
                             v |-> << [digits |-> TRUE, verse |-> 1, text |-> <<"a">>],
                                      [digits |-> FALSE, verse |-> NaN, text |-> <<"b">>] >>],
                            [k |-> NaN, obj |-> FALSE, v |-> <<>>],
                            [k |-> 3, obj |-> TRUE,
                             v |-> << [digits |-> TRUE, verse |-> 1, text |-> <<"b">>] >>] >>])
  ELSE IF book = "Tobit"
  THEN Some([t |-> "A", declared |-> NaN, chapters |-> << NullChapter >>])
  ELSE None

\* what the user types into the search box: one token, two tokens in either
\* case, leading whitespace, six tokens, whitespace only
Queries ==
  { <<"a">>,
    <<"b", " ", " ", "A">>,
    <<" ", "a", "b">>,
    <<"a", " ", "a", " ", "a", " ", "a", " ", "b", " ", "c">>,
    <<" ">> }

\* the queries typed in a run of the whole system
FewQueries == { <<"a">>, <<"b", " ", " ", "A">>, <<" ">> }

\* the limit field of a search message (the page sends 100)
Limits == 0..MaxLimit

\* ------------------------------------------------------------------ state
VARIABLES
  \* class Data
  books,             \* this.books
  bookChapters,      \* this._bookChapters: book -> chapterCount
  cache,             \* this._cache: <<book, chapter>> -> verses
  singleByRef,       \* this._singleByRef: None, or Some(<<book, chapter>> -> verses)
  \* Data.init
  initPc,            \* the step init() is at: "inline", "bulk", "canon", "done",
                     \* or "raised" when it has thrown
  singleLoaded,      \* its local singleLoaded
  initLog,           \* the sources it has tried, each with its outcome and the
                     \* payload _ingestSingle was called with, if it was called
  \* app.js
  appPc,             \* init() of app.js: "data" (in data.init), "route", "routing"
                     \* (the first route awaits its fetch), "ready", "failed" (the
                     \* first route threw), "dead" (data.init threw)
  fetches,           \* Data.getChapter calls suspended in _fetchMaybe
  fetchLog,          \* every per-book fetch started: [book, chapter, again]
  normalized,        \* the books whose payload was fetched and normalized
  normMemo,          \* book -> the chapters its payload normalized to: the engine's
                     \* sort is one function, so the same payload gives the same chapters
  returned,          \* every result Data.getChapter returned: [book, chapter, verses]
  reader,            \* what renderChapter put on the page
  displayed,         \* what renderHits put on the page
  navs, posted,      \* navigations and search messages so far
  userQueries,       \* the texts the user of this run types into the search box
  palette,           \* the last input of the palette and the items it listed
  thrown,            \* every Data.getChapter call that threw: [book, chapter, located]
  \* the two message channels
  toWorker, toMain,
  \* the search worker
  meta,              \* None, or Some(indexMeta)
  chapterCache,      \* _chapterCache
  pendingResolvers,  \* _pendingResolvers: key -> the search whose promise it resolves
  searches,          \* the calls of search(), in the order they started
  needSent,          \* key -> how many need-chapter messages were posted for it
  answered,          \* how many chapter-data messages the worker has handled
  preview            \* None, or the text and tokens highlight was called with on
                     \* its own, and what it returned

storeVars  == <<books, bookChapters, cache, singleByRef>>
initVars   == <<initPc, singleLoaded, initLog>>
appVars    == <<appPc, fetches, fetchLog, normalized, normMemo, returned, reader, displayed, navs, posted,
               userQueries, palette, thrown>>
workerVars == <<meta, chapterCache, pendingResolvers, searches, needSent, answered, preview>>
vars == <<storeVars, initVars, appVars, toWorker, toMain, workerVars>>

\* ------------------------------------------------------------- class Data
\* chapterCount(book): const val = this._bookChapters.get(book); return val || 1
chapterCountIn(bc, book) ==
  IF book \in DOMAIN bc /\ IsFinite(bc[book]) /\ bc[book] # 0 THEN bc[book] ELSE 1

chapterCount(book) == chapterCountIn(bookChapters, book)

\* indexMeta(), from the book list bs and the count Map bc
indexMetaOf(bs, bc) ==
  [books |-> bs, chapterCounts |-> [i \in 1..Len(bs) |-> chapterCountIn(bc, bs[i])]]

hasBook(b) == b \in Range(books)

Init ==
  /\ books = <<>>
  /\ bookChapters = <<>>
  /\ cache = <<>>
  /\ singleByRef = None
  /\ initPc = "inline"
  /\ singleLoaded = FALSE
  /\ initLog = <<>>
  /\ appPc = "data"
  /\ fetches = {}
  /\ fetchLog = {}
  /\ normalized = {}
  /\ normMemo = <<>>
  /\ returned = {}
  /\ reader = None
  /\ displayed = None
  /\ navs = 0
  /\ posted = 0
  /\ userQueries = FewQueries
  /\ palette = None
  /\ thrown = {}
  /\ toWorker = <<>>
  /\ toMain = <<>>
  /\ meta = None
  /\ chapterCache = <<>>
  /\ pendingResolvers = <<>>
  /\ searches = <<>>
  /\ needSent = <<>>
  /\ answered = 0
  /\ preview = None

\* ------------------------------------------------------------- Data.init
\* one line of the history of init()
Tried(src, ok, json) == [src |-> src, ok |-> ok, json |-> json]

\* this._ingestSingle(json); singleLoaded = true   (or the catch of its throw)
IngestInto(src, json) ==
  LET r == ingestSingleResult(json, bookChapters)
  IN IF r.ok
     THEN /\ books' = r.books
          /\ bookChapters' = r.bookChapters
          /\ singleByRef' = Some(r.singleByRef)
          /\ singleLoaded' = TRUE
          /\ initLog' = Append(initLog, Tried(src, TRUE, Some(json)))
     ELSE /\ UNCHANGED <<books, bookChapters, singleByRef, singleLoaded>>
          /\ initLog' = Append(initLog, Tried(src, FALSE, Some(json)))

\* lines 51-65: the inline payload
DataInitInline ==
  /\ initPc = "inline"
  /\ initPc' = "bulk"
  /\ \E s \in InlineSources :
       IF s.kind = "json"
       THEN IngestInto("inline", s.json)
       ELSE /\ UNCHANGED <<books, bookChapters, singleByRef, singleLoaded>>
            /\ initLog' = Append(initLog, Tried("inline", FALSE, None))
  /\ UNCHANGED <<cache, appVars, toWorker, toMain, workerVars>>

BulkGuardAlways == TRUE

\* line 69: if(!singleLoaded)
BulkGuard == ~singleLoaded

\* lines 67-83: the single-file payload
DataInitBulk ==
  /\ initPc = "bulk"
  /\ initPc' = "canon"
  /\ IF BulkGuard
     THEN \E res \in BulkResponses :
            IF res.kind = "json"
            THEN IngestInto("bulk", res.json)
            ELSE /\ UNCHANGED <<books, bookChapters, singleByRef, singleLoaded>>
                 /\ initLog' = Append(initLog, Tried("bulk", FALSE, None))
     ELSE UNCHANGED <<books, bookChapters, singleByRef, singleLoaded, initLog>>
  /\ UNCHANGED <<cache, appVars, toWorker, toMain, workerVars>>

\* lines 93-95, for a decoded array: this.books and the counts set one by one
canonBooks(entries) == [i \in 1..Len(entries) |-> entries[i].name]

canonChapters(entries, old) ==
  [b \in (DOMAIN old) \cup Range(canonBooks(entries)) |->
     IF b \in Range(canonBooks(entries))
     THEN entries[CHOOSE i \in 1..Len(entries) :
                    /\ entries[i].name = b
                    /\ \A j \in (i + 1)..Len(entries) : entries[j].name # b].chapters
     ELSE old[b]]

\* lines 98-99: the built-in table
builtInChapters ==
  [b \in Range(CANON_66) |->
     BUILT_IN_CANON[CHOOSE i \in 1..Len(BUILT_IN_CANON) : BUILT_IN_CANON[i][1] = b][2]]

\* lines 85-101: canon.json, else the built-in table; then init() of app.js
\* goes on to its first route.  The fetch and res.json() are inside the try;
\* canon.map(e=>e.name) (line 94) is not: on an array that holds a null it
\* throws, init() rejects and init() of app.js ends there.
DataInitCanon ==
  /\ initPc = "canon"
  /\ IF ~singleLoaded
     THEN \E res \in CanonResponses :
            IF res.kind = "nullentry"
            THEN /\ initPc' = "raised"
                 /\ appPc' = "dead"
                 /\ initLog' = Append(initLog, Tried("canon", FALSE, None))
                 /\ UNCHANGED <<books, bookChapters>>
            ELSE /\ initPc' = "done"
                 /\ appPc' = "route"
                 /\ initLog' = Append(initLog, Tried("canon", res.kind = "array", None))
                 /\ IF res.kind = "array"
                    THEN /\ books' = canonBooks(res.entries)
                         /\ bookChapters' = canonChapters(res.entries, bookChapters)
                    ELSE /\ books' = CANON_66
                         /\ bookChapters' = builtInChapters
     ELSE /\ initPc' = "done"
          /\ appPc' = "route"
          /\ UNCHANGED <<books, bookChapters, initLog>>
  /\ UNCHANGED <<cache, singleByRef, singleLoaded>>
  /\ UNCHANGED <<fetches, fetchLog, normalized, normMemo, returned, reader, displayed, navs,
                 posted, userQueries, palette, thrown>>
  /\ UNCHANGED <<toWorker, toMain, workerVars>>

\* ------------------------------------------------- app.js and getChapter
Key(b, c) == <<b, c>>

ChapterData(b, c, verses) ==
  [type |-> "chapter-data", book |-> b, chapter |-> c, verses |-> verses]

\* What the caller of data.getChapter does with the verses it is given.
\* "worker" is the need-chapter handler (app.js 214-218): it posts
\* chapter-data.  "nav" is route -> renderChapter.  "route0" is the first
\* route of init(): after it init() calls setupSearch, which posts the init
\* message with data.indexMeta().
ToWorkerAfter(caller, b, c, verses, bc) ==
  IF caller = "worker" THEN Append(toWorker, ChapterData(b, c, verses))
  ELSE IF caller = "route0"
       THEN Append(toWorker, [type |-> "init", indexMeta |-> indexMetaOf(books, bc)])
       ELSE toWorker

ReaderAfter(caller, b, c, verses) ==
  IF caller \in {"worker", "direct"} THEN reader
  ELSE Some([book |-> b, chapter |-> c, verses |-> verses])

AppPcAfter(caller) == IF caller = "route0" THEN "ready" ELSE appPc

SingleModeNever == FALSE

\* line 122: if(this._singleByRef)
SingleMode == singleByRef # None

\* the verses a single-file getChapter returns:
\* (this._singleByRef.get(key) || []).map(v=>({ ...v }))
singleVerses(b, c) ==
  IF Key(b, c) \in DOMAIN singleByRef[1] THEN singleByRef[1][Key(b, c)] ELSE <<>>

\* line 119: if(this._cache.has(key))
CacheHit(k) == k \in DOMAIN cache

cacheSetNothing(m, k, verses) == m

\* lines 124 and 136: this._cache.set(key, verses)
cacheSet(m, k, verses) == MapSet(m, k, verses)

\* data.getChapter(b, c) up to its first suspension (lines 117-129): a cached
\* or single-file chapter is returned at once, else the per-book fetch starts
StoreGetChapter(caller, b, c) ==
  IF CacheHit(Key(b, c))
  THEN /\ toWorker' = ToWorkerAfter(caller, b, c, cache[Key(b, c)], bookChapters)
       /\ reader' = ReaderAfter(caller, b, c, cache[Key(b, c)])
       /\ appPc' = AppPcAfter(caller)
       /\ returned' = returned \cup {[book |-> b, chapter |-> c, verses |-> cache[Key(b, c)]]}
       /\ UNCHANGED <<cache, fetches, fetchLog>>
  ELSE IF SingleMode
  THEN /\ cache' = cacheSet(cache, Key(b, c), singleVerses(b, c))
       /\ toWorker' = ToWorkerAfter(caller, b, c, singleVerses(b, c), bookChapters)
       /\ reader' = ReaderAfter(caller, b, c, singleVerses(b, c))
       /\ appPc' = AppPcAfter(caller)
       /\ returned' = returned \cup {[book |-> b, chapter |-> c, verses |-> singleVerses(b, c)]}
       /\ UNCHANGED <<fetches, fetchLog>>
  ELSE /\ fetches' = fetches \cup
            {[book |-> b, chapter |-> c, caller |-> caller,
              n |-> Cardinality({f \in fetchLog : f.book = b /\ f.chapter = c}) + 1]}
       /\ fetchLog' = fetchLog \cup
            {[book |-> b, chapter |-> c,
              n |-> Cardinality({f \in fetchLog : f.book = b /\ f.chapter = c}) + 1,
              again |-> (b \in normalized)]}
       /\ appPc' = IF caller = "route0" THEN "routing" ELSE appPc
       /\ UNCHANGED <<cache, toWorker, reader, returned>>

\* the chapter numbers a hash can carry
HashChapters == 0..3

\* app.js 145: chap = Math.min(Math.max(1, chap), data.chapterCount(book))
clampChapter(n, cc) == Min(Max(1, n), cc)

\* the chapters a route can ask for: a book of the list (app.js 144), the
\* chapter of the hash clamped (app.js 145)
RouteTargets ==
  {Key(books[i], clampChapter(n, chapterCount(books[i]))) :
     i \in 1..Len(books), n \in HashChapters}

\* init(), lines 108-113: the first route of a page opened without a hash goes
\* to chapter 1 of the first book
FirstRoute ==
  /\ appPc = "route"
  /\ Len(books) > 0
  /\ StoreGetChapter("route0", books[1], clampChapter(1, chapterCount(books[1])))
  /\ UNCHANGED <<books, bookChapters, singleByRef, initVars>>
  /\ UNCHANGED <<normalized, normMemo, displayed, navs, posted, userQueries, palette, thrown,
                 toMain, workerVars>>

\* a later hashchange: route -> renderChapter -> data.getChapter
Navigate ==
  /\ appPc \in {"routing", "ready", "failed"}
  /\ navs < MaxNav
  /\ navs' = navs + 1
  /\ \E k \in RouteTargets : StoreGetChapter("nav", k[1], k[2])
  /\ UNCHANGED <<books, bookChapters, singleByRef, initVars>>
  /\ UNCHANGED <<normalized, normMemo, displayed, posted, userQueries, palette, thrown,
                 toMain, workerVars>>

\* the names and chapter numbers the store is called with directly: a chapter
\* it holds, chapter 0, a chapter above the book's count, a name no payload has
DirectArgs == {<<"Enoch", 1>>, <<"Enoch", 0>>, <<"Enoch", 3>>, <<"Nobody", 1>>}

\* data.getChapter(name, n) called on a single-file store with any name and
\* number (lines 117-126)
DirectGetChapter ==
  /\ initPc = "done"
  /\ singleByRef # None
  /\ \E k \in DirectArgs : StoreGetChapter("direct", k[1], k[2])
  /\ UNCHANGED <<books, bookChapters, singleByRef, initVars>>
  /\ UNCHANGED <<normalized, normMemo, displayed, navs, posted, userQueries, palette, thrown,
                 toMain, workerVars>>

\* _fetchMaybe resolves with null (no file, a network error, a status that is
\* not ok): getChapter throws "Missing data for book" (line 130); the caller's
\* promise rejects, and no chapter-data is posted; a first route that throws
\* ends init()
FetchMissing ==
  \E f \in fetches :
    /\ fetches' = fetches \ {f}
    /\ thrown' = thrown \cup {[book |-> f.book, chapter |-> f.chapter, located |-> FALSE]}
    /\ appPc' = IF f.caller = "route0" THEN "failed" ELSE appPc
    /\ UNCHANGED <<storeVars, initVars, fetchLog, normalized, normMemo, returned, reader,
                   displayed, navs, posted, userQueries, palette, toWorker, toMain, workerVars>>

\* _fetchMaybe resolves with the book's payload and _normalizePerBook throws
\* on it (line 131): getChapter rejects with the TypeError, nothing is cached
FetchRaise ==
  \E f \in fetches :
    /\ PerBookFile(f.book) # None
    /\ normalizeThrows(PerBookFile(f.book)[1])
    /\ fetches' = fetches \ {f}
    /\ thrown' = thrown \cup {[book |-> f.book, chapter |-> f.chapter, located |-> TRUE]}
    /\ appPc' = IF f.caller = "route0" THEN "failed" ELSE appPc
    /\ UNCHANGED <<storeVars, initVars, fetchLog, normalized, normMemo, returned, reader,
                   displayed, navs, posted, userQueries, palette, toWorker, toMain, workerVars>>

\* line 135: chapters.get(chapter) || []
sliceChapter(chapters, chapter) ==
  IF chapter \in DOMAIN chapters THEN chapters[chapter] ELSE <<>>

\* _fetchMaybe resolves with the book's payload: lines 131-137
FetchDone ==
  \E f \in fetches :
    /\ PerBookFile(f.book) # None
    /\ ~normalizeThrows(PerBookFile(f.book)[1])
    /\ \E r \in normalizePerBook(f.book, PerBookFile(f.book)[1],
                                 IF f.book \in DOMAIN bookChapters
                                 THEN Some(bookChapters[f.book]) ELSE None) :
         /\ f.book \in DOMAIN normMemo => r.chapters = normMemo[f.book]
         /\ normMemo' = MapSet(normMemo, f.book, r.chapters)
         /\ LET verses == sliceChapter(r.chapters, f.chapter)
                bc == MapSet(bookChapters, f.book, r.chapterCount)
            IN /\ bookChapters' = bc
               /\ cache' = cacheSet(cache, Key(f.book, f.chapter), verses)
               /\ toWorker' = ToWorkerAfter(f.caller, f.book, f.chapter, verses, bc)
               /\ reader' = ReaderAfter(f.caller, f.book, f.chapter, verses)
               /\ appPc' = AppPcAfter(f.caller)
               /\ returned' = returned \cup
                    {[book |-> f.book, chapter |-> f.chapter, verses |-> verses]}
    /\ fetches' = fetches \ {f}
    /\ normalized' = normalized \cup {f.book}
    /\ UNCHANGED <<books, singleByRef, initVars, fetchLog, displayed, navs, posted,
                   userQueries, palette, thrown, toMain, workerVars>>

\* ------------------------------------------------- the reference parser
\* [A-Za-z] on the model's alphabet
Letters ==
  {"a", "b", "c", "d", "e", "g", "h", "i", "n", "o", "p", "s", "t", "u", "x", "z",
   "A", "B", "E", "G", "T"}

DigitChars == <<"0", "1", "2", "3", "4", "5", "6", "7", "8", "9">>

Digits == Range(DigitChars)

RECURSIVE toNumber(_)
\* Number(m[2]) of a string of digits
toNumber(ds) ==
  IF ds = <<>> THEN 0
  ELSE toNumber(SubSeq(ds, 1, Len(ds) - 1)) * Len(DigitChars)
         + (CHOOSE i \in 0..(Len(DigitChars) - 1) : DigitChars[i + 1] = ds[Len(ds)])

RECURSIVE TakeWhile(_, _)
TakeWhile(s, S) ==
  IF s # <<>> /\ Head(s) \in S THEN <<Head(s)>> \o TakeWhile(Tail(s), S) ELSE <<>>

Drop(s, n) == SubSeq(s, n + 1, Len(s))

RECURSIVE RemoveAll(_, _)
RemoveAll(s, S) ==
  IF s = <<>> THEN <<>>
  ELSE (IF Head(s) \in S THEN <<>> ELSE <<Head(s)>>) \o RemoveAll(Tail(s), S)

\* a book name as the text it is
Chars(name) ==
  CASE name = "Genesis" -> <<"G", "e", "n", "e", "s", "i", "s">>
    [] name = "Exodus"  -> <<"E", "x", "o", "d", "u", "s">>
    [] name = "Enoch"   -> <<"E", "n", "o", "c", "h">>
    [] name = "Tobit"   -> <<"T", "o", "b", "i", "t">>
    [] OTHER            -> <<"?">>

\* s.match(/^\s*([1-3]?\s*[A-Za-z.]+)\s+(\d+)(?::(\d+))?\s*$/): None, or the
\* groups b (m[1]), c (m[2]) and v (m[3], empty when the group did not take part)
matchRef(s) ==
  LET s1   == DropWhile(s, WS)
      s2   == IF s1 # <<>> /\ Head(s1) \in {"1", "2", "3"} THEN Tail(s1) ELSE s1
      s3   == DropWhile(s2, WS)
      name == TakeWhile(s3, Letters \cup {"."})
      s4   == Drop(s3, Len(name))
      s5   == DropWhile(s4, WS)
      ch   == TakeWhile(s5, Digits)
      s6   == Drop(s5, Len(ch))
      hasV == s6 # <<>> /\ Head(s6) = ":"
      vs   == IF hasV THEN TakeWhile(Tail(s6), Digits) ELSE <<>>
      s7   == IF hasV THEN Drop(Tail(s6), Len(vs)) ELSE s6
  IN IF /\ name # <<>>
        /\ Len(s5) < Len(s4)
        /\ ch # <<>>
        /\ hasV => vs # <<>>
        /\ DropWhile(s7, WS) = <<>>
     THEN Some([b |-> SubSeq(s1, 1, Len(s1) - Len(s4)), c |-> ch, v |-> vs])
     ELSE None

\* BOOK_ALIASES cut to three entries; 'ps' names a book the cut Canon Table
\* does not hold
BOOK_ALIASES(key) ==
  CASE key = <<"g", "e", "n">> -> "Genesis"
    [] key = <<"e", "x">>      -> "Exodus"
    [] key = <<"p", "s">>      -> "Psalms"
    [] OTHER                   -> NULL

\* norm of resolveBook: lower case, whitespace removed, a leading 1st, 2nd or
\* 3rd cut to its digit
norm(t) ==
  LET w == RemoveAll(toLowerCase(t), WS)
  IN IF \E o \in {<<"1", "s", "t">>, <<"2", "n", "d">>, <<"3", "r", "d">>} : IsPrefix(o, w)
     THEN <<w[1]>> \o Drop(w, 3)
     ELSE w

\* this.books.find(b=> norm(b)===n) || this.books.find(b=> norm(b).startsWith(n))
resolveBook(q) ==
  LET n      == norm(q)
      exact  == {i \in 1..Len(books) : norm(Chars(books[i])) = n}
      prefix == {i \in 1..Len(books) : IsPrefix(n, norm(Chars(books[i])))}
      first(S) == books[CHOOSE i \in S : \A j \in S : i <= j]
  IN IF exact # {} THEN first(exact)
     ELSE IF prefix # {} THEN first(prefix)
     ELSE NULL

\* parseRef(s).  When neither the alias table nor resolveBook names a book, b
\* stays the typed text; resolveBook has then found no book whose norm equals
\* that of the text, so hasBook(b) is false: the text is NULL here.
parseRef(s) ==
  LET m == matchRef(s)
  IN IF s = <<>> \/ m = None THEN None
     ELSE LET b0    == Trim(RemoveAll(m[1].b, {"."}))
              alias == BOOK_ALIASES(toLowerCase(b0))
              b     == IF alias # NULL THEN alias ELSE resolveBook(b0)
          IN IF ~hasBook(b) THEN None
             ELSE Some([book    |-> b,
                        chapter |-> clampChapter(toNumber(m[1].c), chapterCount(b)),
                        verse   |-> IF m[1].v # <<>> THEN Some(toNumber(m[1].v)) ELSE None])

RECURSIVE bookItems(_, _)
\* the books listed under the reference (app.js 250-257): all of them for an
\* empty input, else those whose lowercased name includes the lowercased input
bookItems(bs, q) ==
  IF bs = <<>> THEN <<>>
  ELSE (IF q = <<>> \/ includes(toLowerCase(Chars(Head(bs))), toLowerCase(q))
        THEN <<[book |-> Head(bs), chapter |-> 1, verse |-> None]>>
        ELSE <<>>) \o bookItems(Tail(bs), q)

\* what the user types into the palette
RefInputs ==
  { <<"g", "e", "n", " ", "2">>,
    <<"e", "x", " ", "0">>,
    <<"e", " ", "1">>,
    <<"E", "n", "o", "c", "h", " ", "1", ":", "2">>,
    <<"p", "s", " ", "1">>,
    <<"z", "z", " ", "1">>,
    <<"t", "o", "b">>,
    <<".", " ", "1">>,
    <<" ", "T", "o", "b", "i", "t", " ", " ", "9", " ">>,
    <<>> }

\* the input listener of the palette: updatePaletteList (app.js 243-268, 284)
PaletteInput ==
  /\ \E input \in RefInputs :
       LET q   == Trim(input)
           ref == parseRef(q)
       IN palette' = Some([input |-> input, ref |-> ref,
                           items |-> ref \o bookItems(books, q)])
  /\ UNCHANGED <<storeVars, initVars, appPc, fetches, fetchLog, normalized, normMemo, returned,
                 reader, displayed, navs, posted, userQueries, thrown, toWorker, toMain,
                 workerVars>>

\* --------------------------------------------------------- the search box
\* the input listener of the search box (app.js 203-207)
PostSearch ==
  /\ appPc = "ready"
  /\ posted < MaxSearches
  /\ posted' = posted + 1
  /\ \E q \in userQueries, limit \in Limits :
       IF Trim(q) = <<>>
       THEN /\ displayed' = None
            /\ UNCHANGED toWorker
       ELSE /\ toWorker' = Append(toWorker, [type |-> "search", query |-> Trim(q), limit |-> limit])
            /\ UNCHANGED displayed
  /\ UNCHANGED <<storeVars, initVars, appPc, fetches, fetchLog, normalized, normMemo, returned,
                 reader, navs, userQueries, palette, thrown, toMain, workerVars>>

\* the worker's message listener (app.js 209-219)
MainRecv ==
  /\ appPc = "ready"
  /\ toMain # <<>>
  /\ toMain' = Tail(toMain)
  /\ LET m == Head(toMain)
     IN IF m.type = "hits"
        THEN /\ displayed' = Some(m.hits)
             /\ UNCHANGED <<cache, fetches, fetchLog, returned, reader, appPc, toWorker>>
        ELSE /\ StoreGetChapter("worker", m.book, m.chapter)
             /\ UNCHANGED displayed
  /\ UNCHANGED <<books, bookChapters, singleByRef, initVars, normalized, normMemo, navs, posted,
                 userQueries, palette, thrown, workerVars>>

\* ------------------------------------------------------ the search worker
\* const cc = meta.chapterCounts[bi] || 1
ccOf(m, bi) ==
  IF IsFinite(m.chapterCounts[bi]) /\ m.chapterCounts[bi] # 0
  THEN m.chapterCounts[bi] ELSE 1

RECURSIVE LoopPos(_, _, _)
\* the two for loops of search: from (bi, c), the next (bi, c) whose body
\* runs, or bi past the book list when there is none
LoopPos(m, bi, c) ==
  IF bi > Len(m.books) THEN [bi |-> bi, c |-> c]
  ELSE IF c <= ccOf(m, bi) THEN [bi |-> bi, c |-> c]
  ELSE LoopPos(m, bi + 1, 1)

\* results.push({ book, chapter, verse, previewHtml }): previewHtml is
\* highlight(v.text, tokens), a function of the scanned verse and the tokens
\* that nothing in the worker or the page reads back; it is left out of the
\* hit here and computed by Highlight
Hit(b, c, v) == [book |-> b, chapter |-> c, verse |-> v.verse]

\* a verse the scan of chapter c of book b has looked at
Seen(b, c, v) == [book |-> b, chapter |-> c, verse |-> v.verse, text |-> v.text]

LimitReachedOver(n, limit) == n > limit

\* if(results.length >= limit) break outer
LimitReached(n, limit) == n >= limit

\* search(q, limit) as it is called: lines 306-308
NewSearch(q, limit) ==
  [query |-> q, limit |-> limit, tokens |-> tokenize(q),
   bi |-> 1, c |-> 1, vi |-> 1, verses |-> <<>>, results |-> <<>>,
   asked |-> <<>>, seen |-> <<>>,
   pc |-> IF tokenize(q) = <<>> THEN "return" ELSE "loop"]

\* the loop head and getChapter(b, c) of the worker (lines 309-313, 294-303):
\* past the last book the search returns; a cached chapter is scanned at once;
\* else the search suspends in getChapter ("wait").  asked notes each call of
\* getChapter with the number of hits held when it was made, seen (in
\* StepScanVerse) each verse the scan has looked at.
StepGetChapter(s, m, cc) ==
  LET pos == LoopPos(m, s.bi, s.c)
  IN IF pos.bi > Len(m.books)
     THEN [s EXCEPT !.bi = pos.bi, !.c = pos.c, !.pc = "return"]
     ELSE LET k == Key(m.books[pos.bi], pos.c)
              ask == [book |-> k[1], chapter |-> k[2], have |-> Len(s.results)]
          IN IF k \in DOMAIN cc
             THEN [s EXCEPT !.bi = pos.bi, !.c = pos.c, !.vi = 1, !.verses = cc[k],
                            !.asked = Append(@, ask), !.pc = "scan"]
             ELSE [s EXCEPT !.bi = pos.bi, !.c = pos.c,
                            !.asked = Append(@, ask), !.pc = "wait"]

\* one turn of for(const v of verses) (lines 314-325); after the last verse
\* the chapter loop goes on
StepScanVerse(s, m) ==
  IF s.vi > Len(s.verses)
  THEN [s EXCEPT !.c = s.c + 1, !.pc = "loop"]
  ELSE LET v == s.verses[s.vi]
       IN IF verseMatches(v.text, s.tokens)
          THEN [s EXCEPT !.results = Append(@, Hit(m.books[s.bi], s.c, v)),
                         !.vi = s.vi + 1, !.seen = Append(@, Seen(m.books[s.bi], s.c, v)),
                         !.pc = IF LimitReached(Len(s.results) + 1, s.limit)
                                THEN "return" ELSE "scan"]
          ELSE [s EXCEPT !.vi = s.vi + 1, !.seen = Append(@, Seen(m.books[s.bi], s.c, v))]

RECURSIVE RunSearch(_, _, _)
\* the search runs on, without yielding to another message, until it
\* suspends in getChapter ("wait") or returns ("return")
RunSearch(s, m, cc) ==
  IF s.pc = "loop" THEN RunSearch(StepGetChapter(s, m, cc), m, cc)
  ELSE IF s.pc = "scan" THEN RunSearch(StepScanVerse(s, m), m, cc)
  ELSE s

\* What the worker does when search i has run to s: suspended in getChapter
\* (lines 298-301: the resolver is stored under the key, need-chapter is
\* posted), or returned (lines 280-281: hits is posted).
Settle(i, s, srch, resolvers) ==
  LET k == Key(s.asked[Len(s.asked)].book, s.asked[Len(s.asked)].chapter)
  IN IF s.pc = "wait"
     THEN /\ searches' = [srch EXCEPT ![i] = s]
          /\ pendingResolvers' = MapSet(resolvers, k, i)
          /\ toMain' = Append(toMain, [type |-> "need-chapter", book |-> k[1], chapter |-> k[2]])
          /\ needSent' = MapSet(needSent, k, IF k \in DOMAIN needSent THEN needSent[k] + 1 ELSE 1)
     ELSE /\ searches' = [srch EXCEPT ![i] = [s EXCEPT !.pc = "done"]]
          /\ pendingResolvers' = resolvers
          /\ toMain' = Append(toMain, [type |-> "hits", hits |-> s.results])
          /\ UNCHANGED needSent

resolvedWithNothing(verses) == <<>>

\* line 285: _pendingResolvers.get(key(book,chapter))?.(verses): what the
\* suspended getChapter returns to search
resolvedWith(verses) == verses

\* self.onmessage for an init message (lines 275-276)
WorkerInit ==
  /\ toWorker # <<>>
  /\ Head(toWorker).type = "init"
  /\ toWorker' = Tail(toWorker)
  /\ meta' = Some(Head(toWorker).indexMeta)
  /\ UNCHANGED <<storeVars, initVars, appVars, toMain, chapterCache, pendingResolvers,
                 searches, needSent, answered, preview>>

\* self.onmessage for a search message (lines 277-281), up to the point where
\* the search suspends or returns
WorkerSearch ==
  /\ toWorker # <<>>
  /\ Head(toWorker).type = "search"
  /\ toWorker' = Tail(toWorker)
  /\ IF meta = None
     THEN UNCHANGED <<searches, pendingResolvers, toMain, needSent>>
     ELSE Settle(Len(searches) + 1,
                 RunSearch(NewSearch(Head(toWorker).query, Head(toWorker).limit),
                           meta[1], chapterCache),
                 Append(searches, NewSearch(Head(toWorker).query, Head(toWorker).limit)),
                 pendingResolvers)
  /\ UNCHANGED <<storeVars, initVars, appVars, meta, chapterCache, answered, preview>>

\* self.onmessage for a chapter-data message (lines 282-287): the chapter is
\* cached and the search whose resolver is stored under the key runs on
WorkerChapterData ==
  /\ toWorker # <<>>
  /\ Head(toWorker).type = "chapter-data"
  /\ toWorker' = Tail(toWorker)
  /\ answered' = answered + 1
  /\ LET m  == Head(toWorker)
         k  == Key(m.book, m.chapter)
         cc == MapSet(chapterCache, k, m.verses)
     IN /\ chapterCache' = cc
        /\ IF k \in DOMAIN pendingResolvers
           THEN LET i == pendingResolvers[k]
                    s == [searches[i] EXCEPT !.verses = resolvedWith(m.verses), !.vi = 1,
                                             !.pc = "scan"]
                IN Settle(i, RunSearch(s, meta[1], cc), searches,
                          [x \in (DOMAIN pendingResolvers) \ {k} |-> pendingResolvers[x]])
           ELSE UNCHANGED <<pendingResolvers, searches, toMain, needSent>>
  /\ UNCHANGED <<storeVars, initVars, appVars, meta, preview>>

\* ------------------------------------------------- highlight on its own
\* the verse texts highlight is given: plain, mixed case, with each of the
\* characters esc replaces, with a dot, with the letters of the marker, empty
HighlightTexts ==
  { <<"a">>,
    <<"b", " ", "A">>,
    <<"a", "&", "b">>,
    <<"<", "a", ">">>,
    <<"a", "b">>,
    <<"a", ".", "b">>,
    <<"a", "x", "b">>,
    <<"m", "a", "r", "k">>,
    <<"\"", "a", "\"">>,
    <<>> }

\* the queries whose tokens highlight is given
HighlightQueries ==
  { <<"a">>,
    <<"A", " ", "b">>,
    <<"b", " ", "a">>,
    <<"a", "b">>,
    <<"a", "m", "p">>,
    <<"l", "t", " ", "a">>,
    <<"a", ".">>,
    <<".">>,
    <<"m", "a", "r", "k">>,
    <<"a", " ", "<">>,
    <<"&", " ", "k">> }

\* previewHtml: highlight(v.text, tokens) (line 321), tokens = tokenize(q)
\* (line 306), for any verse text and any query
Highlight ==
  /\ \E text \in HighlightTexts, q \in HighlightQueries :
       preview' = Some([text |-> text, tokens |-> tokenize(q),
                        previewHtml |-> highlight(text, tokenize(q))])
  /\ UNCHANGED <<storeVars, initVars, appVars, toWorker, toMain, meta, chapterCache,
                 pendingResolvers, searches, needSent, answered>>

NextHighlight == Highlight

SpecHighlight == Init /\ [][NextHighlight]_vars

\* ------------------------------------------------------ the specification
Next ==
  \/ DataInitInline
  \/ DataInitBulk
  \/ DataInitCanon
  \/ FirstRoute
  \/ Navigate
  \/ FetchMissing
  \/ FetchRaise
  \/ FetchDone
  \/ PostSearch
  \/ MainRecv
  \/ WorkerInit
  \/ WorkerSearch
  \/ WorkerChapterData

Spec == Init /\ [][Next]_vars

\* ------------------------------------------ the search session on its own
\* The page after init() with the inline payload PayloadArray: the store is
\* single-file, the first route has rendered chapter 1 of the first book and
\* setupSearch has posted the init message.  The user types any of Queries.
InitSearch ==
  LET r  == ingestSingleResult(PayloadArray, <<>>)
      k  == Key(r.books[1], 1)
      vs == IF k \in DOMAIN r.singleByRef THEN r.singleByRef[k] ELSE <<>>
  IN /\ books = r.books
     /\ bookChapters = r.bookChapters
     /\ cache = MapSet(<<>>, k, vs)
     /\ singleByRef = Some(r.singleByRef)
     /\ initPc = "done"
     /\ singleLoaded = TRUE
     /\ initLog = <<Tried("inline", TRUE, Some(PayloadArray))>>
     /\ appPc = "ready"
     /\ fetches = {}
     /\ fetchLog = {}
     /\ normalized = {}
     /\ normMemo = <<>>
     /\ returned = {[book |-> k[1], chapter |-> 1, verses |-> vs]}
     /\ reader = Some([book |-> k[1], chapter |-> 1, verses |-> vs])
     /\ displayed = None
     /\ navs = 0
     /\ posted = 0
     /\ userQueries = Queries
     /\ palette = None
     /\ thrown = {}
     /\ toWorker = <<[type |-> "init", indexMeta |-> indexMetaOf(r.books, r.bookChapters)]>>
     /\ toMain = <<>>
     /\ meta = None
     /\ chapterCache = <<>>
     /\ pendingResolvers = <<>>
     /\ searches = <<>>
     /\ needSent = <<>>
     /\ answered = 0
     /\ preview = None

NextSearch ==
  \/ PostSearch
  \/ MainRecv
  \/ WorkerInit
  \/ WorkerSearch
  \/ WorkerChapterData

SpecSearch == InitSearch /\ [][NextSearch]_vars

\* the worker's listener runs on the message at the head of its queue: the
\* steps that take it away are those of WorkerInit, WorkerSearch and
\* WorkerChapterData, one of which is enabled for any head
WorkerTakes == toWorker # <<>> /\ toWorker' = Tail(toWorker)

\* Message delivery: a message posted to the worker or to the page is handled
\* (each context runs its listener on the head of its queue).  What the user
\* types is not scheduled.
DeliveryFair ==
  /\ WF_vars(MainRecv)
  /\ WF_toWorker(WorkerTakes)

SpecSearchFair == SpecSearch /\ DeliveryFair

\* ----------------------------------- the search session on a split store
\* The page after init() when every source has failed: the store holds the
\* built-in table, the first route has fetched the first book, rendered its
\* chapter 1, and setupSearch has posted the init message.
InitSplit ==
  \E r \in normalizePerBook(CANON_66[1], PerBookFile(CANON_66[1])[1],
                            Some(builtInChapters[CANON_66[1]])) :
    LET b  == CANON_66[1]
        bc == MapSet(builtInChapters, b, r.chapterCount)
        vs == sliceChapter(r.chapters, 1)
    IN /\ books = CANON_66
       /\ bookChapters = bc
       /\ cache = MapSet(<<>>, Key(b, 1), vs)
       /\ singleByRef = None
       /\ initPc = "done"
       /\ singleLoaded = FALSE
       /\ initLog = <<Tried("inline", FALSE, None), Tried("bulk", FALSE, None),
                      Tried("canon", FALSE, None)>>
       /\ appPc = "ready"
       /\ fetches = {}
       /\ fetchLog = {[book |-> b, chapter |-> 1, n |-> 1, again |-> FALSE]}
       /\ normalized = {b}
       /\ normMemo = MapSet(<<>>, b, r.chapters)
       /\ returned = {[book |-> b, chapter |-> 1, verses |-> vs]}
       /\ reader = Some([book |-> b, chapter |-> 1, verses |-> vs])
       /\ displayed = None
       /\ navs = 0
       /\ posted = 0
       /\ userQueries = FewQueries
       /\ palette = None
       /\ thrown = {}
       /\ toWorker = <<[type |-> "init", indexMeta |-> indexMetaOf(CANON_66, bc)]>>
       /\ toMain = <<>>
       /\ meta = None
       /\ chapterCache = <<>>
       /\ pendingResolvers = <<>>
       /\ searches = <<>>
       /\ needSent = <<>>
       /\ answered = 0
       /\ preview = None

NextSplit ==
  \/ PostSearch
  \/ MainRecv
  \/ WorkerInit
  \/ WorkerSearch
  \/ WorkerChapterData
  \/ FetchMissing
  \/ FetchDone

SpecSplit == InitSplit /\ [][NextSplit]_vars

\* a fetch in flight ends: the steps that take one away are those of
\* FetchMissing, FetchRaise and FetchDone
FetchCompletes == \E f \in fetches : fetches' = fetches \ {f}

\* every fetch the store starts completes, with data or with failure
FetchFair == WF_fetches(FetchCompletes)

SpecSplitFair == SpecSplit /\ DeliveryFair /\ FetchFair

\* ------------------------------------------- the store and its page alone
\* init() and the routes, without the search box and the worker
NextStore ==
  \/ DataInitInline
  \/ DataInitBulk
  \/ DataInitCanon
  \/ FirstRoute
  \/ Navigate
  \/ FetchMissing
  \/ FetchRaise
  \/ FetchDone
  \/ DirectGetChapter

SpecStore == Init /\ [][NextStore]_vars

\* ------------------------------------------ the store and the palette alone
\* init() and the inputs of the palette, whose listener is installed when the
\* module is loaded
NextPalette ==
  \/ DataInitInline
  \/ DataInitBulk
  \/ DataInitCanon
  \/ PaletteInput

SpecPalette == Init /\ [][NextPalette]_vars

\* ================================================================ claims
RECURSIVE SumOver(_, _)
SumOver(f, S) ==
  IF S = {} THEN 0
  ELSE LET x == CHOOSE y \in S : TRUE IN f[x] + SumOver(f, S \ {x})

\* need-chapter messages posted and not yet answered by a chapter-data
Outstanding == SumOver(needSent, DOMAIN needSent) - answered

Done(i) == searches[i].pc = "done"

\* C1: at most one need-chapter request is outstanding (sent and not yet
\* answered by its chapter-data) at any time, also when a search message
\* arrives while an earlier search is suspended.
C1_OneOutstanding == Outstanding <= 1

\* C2: within one session need-chapter is sent at most once for each
\* (document, chapter) key, over any sequence of searches.
C2_NeedChapterOncePerKey == \A k \in DOMAIN needSent : needSent[k] <= 1

\* C3: in split-source mode two getChapter calls with the same key return
\* equal verses and together start at most one fetch of the document.
C3_OneFetchPerKey ==
  singleByRef = None =>
    /\ \A f, g \in fetchLog : (f.book = g.book /\ f.chapter = g.chapter) => f = g
    /\ \A x, y \in returned : (x.book = y.book /\ x.chapter = y.chapter) => x.verses = y.verses

\* C4: in split-source mode, once a getChapter has fetched and normalized a
\* document, no later getChapter for that document starts a fetch.
C4_NoFetchAfterNormalized == \A f \in fetchLog : ~f.again

\* the verses the store holds for chapter c of book b (single-file store)
StoreChapter(b, c) ==
  IF Key(b, c) \in DOMAIN singleByRef[1] THEN singleByRef[1][Key(b, c)] ELSE <<>>

RECURSIVE CountMatches(_, _)
CountMatches(vs, tokens) ==
  IF vs = <<>> THEN 0
  ELSE (IF \A i \in 1..Len(tokens) : includes(toLowerCase(Head(vs).text), tokens[i])
        THEN 1 ELSE 0) + CountMatches(Tail(vs), tokens)

\* M: the matching verses in chapters 1..chapterCount of the documents of the
\* index metadata
MatchCount(tokens) ==
  LET m    == meta[1]
      keys == UNION {{<<i, c>> : c \in 1..ccOf(m, i)} : i \in 1..Len(m.books)}
      n    == [k \in keys |-> CountMatches(StoreChapter(m.books[k[1]], k[2]), tokens)]
  IN SumOver(n, keys)

\* C5: for a query with at least one token and a limit >= 0, search returns
\* exactly min(limit, M) hits.
C5_ExactlyMinLimitM ==
  \A i \in 1..Len(searches) :
    (Done(i) /\ searches[i].tokens # <<>>) =>
      Len(searches[i].results) = Min(searches[i].limit, MatchCount(searches[i].tokens))

\* C6: once a search holds its limit-th hit (limit >= 1) it calls getChapter
\* no more and scans no further verse: every getChapter call was made with
\* fewer than limit hits, a search that waits for a chapter holds fewer than
\* limit hits, and a search that ended on its limit ended on the verse of its
\* last hit, in the chapter it asked for last.
C6_StopsAtLimit ==
  \A i \in 1..Len(searches) :
    LET s == searches[i]
    IN s.limit >= 1 =>
         /\ \A a \in 1..Len(s.asked) : s.asked[a].have < s.limit
         /\ s.pc = "wait" => Len(s.results) < s.limit
         /\ Len(s.results) <= s.limit
         /\ (Done(i) /\ Len(s.results) = s.limit) =>
              LET last == s.results[Len(s.results)]
                  ask  == s.asked[Len(s.asked)]
                  v    == s.seen[Len(s.seen)]
              IN /\ ask.book = last.book /\ ask.chapter = last.chapter
                 /\ v.book = last.book /\ v.chapter = last.chapter /\ v.verse = last.verse

\* a search ended on its limit while verses of its last chapter, or further
\* chapters, were still unscanned
C6_Witness ==
  \E i \in 1..Len(searches) :
    LET s == searches[i]
    IN /\ Done(i) /\ s.limit >= 1 /\ Len(s.results) = s.limit
       /\ s.vi <= Len(s.verses)
       /\ s.bi < Len(meta[1].books)
       /\ Len(s.asked) >= 1

BookPos(b) == CHOOSE i \in 1..Len(meta[1].books) : meta[1].books[i] = b

\* h comes no later than g in (document position, chapter, verse) order
HitLeq(h, g) ==
  \/ BookPos(h.book) < BookPos(g.book)
  \/ /\ h.book = g.book
     /\ \/ h.chapter < g.chapter
        \/ h.chapter = g.chapter /\ h.verse <= g.verse

\* C7: the hits of a search are ordered ascending by (position of the
\* document in the index metadata, chapter, verse); stated of the hits whose
\* verse is a number.
C7_HitsAscending ==
  \A i \in 1..Len(searches) :
    \A x, y \in 1..Len(searches[i].results) :
      (x < y /\ IsFinite(searches[i].results[x].verse)
             /\ IsFinite(searches[i].results[y].verse)) =>
        HitLeq(searches[i].results[x], searches[i].results[y])

\* the tokens as the claim words them: the maximal runs of non-whitespace
\* characters of the lowercased query, in order, the first five at most
TokenStarts(q) == {i \in 1..Len(q) : q[i] \notin WS /\ (i = 1 \/ q[i - 1] \in WS)}

TokenEnd(q, i) ==
  CHOOSE j \in i..Len(q) :
    /\ \A x \in i..j : q[x] \notin WS
    /\ (j = Len(q) \/ q[j + 1] \in WS)

ClaimTokens(q) ==
  LET lq     == [i \in 1..Len(q) |-> LowerChar(q[i])]
      starts == TokenStarts(lq)
      first5 == {i \in starts : Cardinality({j \in starts : j < i}) < 5}
  IN {SubSeq(lq, i, TokenEnd(lq, i)) : i \in first5}

ClaimMatch(text, q) ==
  \A t \in ClaimTokens(q) :
    \E off \in 0..(Len(text) - Len(t)) :
      \A x \in 1..Len(t) : LowerChar(text[off + x]) = t[x]

RECURSIVE ExpectedHits(_, _)
ExpectedHits(seen, q) ==
  IF seen = <<>> THEN <<>>
  ELSE (IF ClaimMatch(Head(seen).text, q)
        THEN <<[book |-> Head(seen).book, chapter |-> Head(seen).chapter,
                verse |-> Head(seen).verse]>>
        ELSE <<>>) \o ExpectedHits(Tail(seen), q)

\* C8: a verse the search scanned is a hit if and only if every one of the
\* first five lowercased whitespace-delimited tokens of the query occurs in
\* the lowercased verse text: the hits are the scanned verses that match so,
\* in scan order.
C8_HitIffAllTokens ==
  \A i \in 1..Len(searches) :
    searches[i].tokens # <<>> =>
      searches[i].results = ExpectedHits(searches[i].seen, searches[i].query)

\* a search of the six-token query has ended with a hit and with a scanned
\* verse that is no hit
C8_Witness ==
  \E i \in 1..Len(searches) :
    /\ Done(i)
    /\ Cardinality(TokenStarts(searches[i].query)) > 5
    /\ Len(searches[i].results) >= 1
    /\ Len(searches[i].seen) > Len(searches[i].results)

\* C9: for one query and limits m <= n the hits of search(q, m) are a prefix
\* of the hits of search(q, n), also for two searches of one session, the
\* later served from the worker's chapter cache.
C9_PrefixInLimit ==
  \A i, j \in 1..Len(searches) :
    (Done(i) /\ Done(j) /\ searches[i].query = searches[j].query
       /\ searches[i].limit <= searches[j].limit) =>
      IsPrefix(searches[i].results, searches[j].results)

\* two searches of one query have ended, the earlier with the larger limit,
\* the later with a smaller one and served from the cache alone
C9_Witness ==
  /\ Len(searches) = 2
  /\ Done(1) /\ Done(2)
  /\ searches[1].query = searches[2].query
  /\ searches[2].limit < searches[1].limit
  /\ Len(searches[2].results) >= 1
  /\ Len(searches[1].results) > Len(searches[2].results)
  /\ SumOver(needSent, DOMAIN needSent) = Len(searches[1].asked)

Sources == <<"inline", "bulk", "canon">>

\* C10: init() tries inline, bulk, canon in this order; nothing is tried
\* after a source has succeeded, and a source that failed is followed by the
\* next one.
C10_SourceOrder ==
  /\ Len(initLog) <= 3
  /\ \A i \in 1..Len(initLog) :
       /\ initLog[i].src = Sources[i]
       /\ i < Len(initLog) => ~initLog[i].ok
  /\ (initPc \in {"canon", "done"} /\ ~initLog[1].ok) => Len(initLog) >= 2
  /\ (initPc = "done" /\ Len(initLog) >= 2 /\ ~initLog[2].ok) => Len(initLog) = 3
  /\ initPc # "inline" => Len(initLog) >= 1
  /\ singleLoaded <=> (\E i \in 1..Len(initLog) : initLog[i].src # "canon" /\ initLog[i].ok)

\* init() has ended on the bulk payload after the inline source failed
C10_Witness ==
  /\ initPc = "done"
  /\ Len(initLog) = 2
  /\ ~initLog[1].ok /\ initLog[2].ok
  /\ singleByRef # None

\* C11: init() never raises, whatever the sources yield, and when every
\* source has failed the store holds the names and the chapter counts of the
\* Canon Table.
C11_InitNeverRaises ==
  /\ initPc # "raised"
  /\ (initPc = "done" /\ \A i \in 1..Len(initLog) : ~initLog[i].ok) =>
       (books = CANON_66 /\ bookChapters = builtInChapters)

\* C12: getChapter raises only in split-source mode and only when the fetch
\* of the document's payload yielded nothing; with a payload obtained it
\* returns a verse sequence.
C12_RaisesOnlyWhenMissing ==
  \A t \in thrown : singleByRef = None /\ ~t.located

\* C13: in single-source mode getChapter(name, n), for any name and any n,
\* starts no fetch, does not raise, and returns the verses the resident map
\* holds for (name, n), the empty sequence when it holds none.
C13_SingleModeResidentOnly ==
  singleByRef # None =>
    /\ fetchLog = {} /\ fetches = {} /\ thrown = {}
    /\ \A r \in returned : r.verses = StoreChapter(r.book, r.chapter)

\* a single-file store has been called with an unknown name, with chapter 0,
\* with a chapter above the book's count and with a chapter it holds
C13_Witness ==
  /\ singleByRef # None
  /\ \E r \in returned : r.book = "Nobody" /\ r.verses = <<>>
  /\ \E r \in returned : r.chapter = 0 /\ r.verses = <<>>
  /\ \E r \in returned : r.book \in Range(books) /\ r.chapter > chapterCount(r.book)
                           /\ r.verses = <<>>
  /\ \E r \in returned : r.book = "Enoch" /\ r.chapter = 1 /\ r.verses # <<>>

\* nothing is in flight between the page and the worker
Quiescent == toWorker = <<>> /\ toMain = <<>> /\ fetches = {}

\* C14: once the searches have quiesced, the hits on the page are those of
\* the most recent query: the hits of a superseded search are not rendered
\* after them.
C14_LatestHitsDisplayed ==
  (Quiescent /\ searches # <<>> /\ Done(Len(searches)) /\ displayed # None) =>
    displayed[1] = searches[Len(searches)].results

\* C15: the getChapter calls that share a key, overlapping or not, all return
\* the same verse sequence, and the cache holds that sequence for the key.
C15_SameKeySameVerses ==
  /\ \A x, y \in returned :
       (x.book = y.book /\ x.chapter = y.chapter) => x.verses = y.verses
  /\ \A x \in returned :
       /\ Key(x.book, x.chapter) \in DOMAIN cache
       /\ cache[Key(x.book, x.chapter)] = x.verses

\* two fetches of one key overlapped and both have returned verses
C15_Witness ==
  \E f \in fetchLog :
    /\ f.n = 2
    /\ \A g \in fetches : ~(g.book = f.book /\ g.chapter = f.chapter)
    /\ \E x \in returned : x.book = f.book /\ x.chapter = f.chapter /\ x.verses # <<>>
    /\ thrown = {}

NoDupVerses(vs) == \A i, j \in 1..Len(vs) : i # j => vs[i].verse # vs[j].verse

\* C16: no verse sequence the store holds or returns has two verses with the
\* same verse number.
C16_VerseUnique ==
  /\ singleByRef # None => \A k \in DOMAIN singleByRef[1] : NoDupVerses(singleByRef[1][k])
  /\ \A k \in DOMAIN cache : NoDupVerses(cache[k])
  /\ \A r \in returned : NoDupVerses(r.verses)

\* C17: every verse sequence getChapter returns is in ascending verse-number
\* order; stated of the verses whose number is a number.
C17_ReturnedAscending ==
  \A r \in returned :
    \A i, j \in 1..Len(r.verses) :
      (i < j /\ IsFinite(r.verses[i].verse) /\ IsFinite(r.verses[j].verse)) =>
        r.verses[i].verse <= r.verses[j].verse

\* C18: chapterCount of a document whose content was ingested is the largest
\* chapter number ingested for it.
C18_CountIsMaxChapter ==
  /\ singleByRef # None =>
       \A k \in DOMAIN singleByRef[1] :
         chapterCount(k[1]) = MaxOf({x[2] : x \in {y \in DOMAIN singleByRef[1] : y[1] = k[1]}})
  /\ \A b \in DOMAIN normMemo :
       DOMAIN normMemo[b] # {} => chapterCount(b) = MaxOf(DOMAIN normMemo[b])

\* the rows of the payload the store was ingested from
IngestedRows ==
  payloadRows(initLog[CHOOSE i \in 1..Len(initLog) :
                        initLog[i].src # "canon" /\ initLog[i].ok].json[1])

\* the rows that were kept
KeptRows == {i \in 1..Len(IngestedRows) : rowToVerse(IngestedRows[i]) # None}

\* the row a document is first met in
FirstAt(b) ==
  CHOOSE i \in KeptRows :
    /\ rowToVerse(IngestedRows[i])[1].book = b
    /\ \A j \in KeptRows : rowToVerse(IngestedRows[j])[1].book = b => i <= j

CanonPos(b) == CHOOSE i \in 1..Len(CANON_66) : CANON_66[i] = b

\* C19: after single-source ingestion the document list holds each ingested
\* document once: those of the Canon Table first, in its order, then the
\* others in the order they were first met in the payload.
C19_CanonicalOrder ==
  singleByRef # None =>
    /\ Range(books) = {rowToVerse(IngestedRows[i])[1].book : i \in KeptRows}
    /\ \A i, j \in 1..Len(books) :
         i < j =>
           /\ books[i] # books[j]
           /\ IF books[i] \in Range(CANON_66)
              THEN books[j] \in Range(CANON_66) => CanonPos(books[i]) < CanonPos(books[j])
              ELSE books[j] \notin Range(CANON_66) /\ FirstAt(books[i]) < FirstAt(books[j])

\* a payload was ingested in which a document outside the Canon Table is met
\* before a document of the Canon Table
C19_Witness ==
  /\ singleByRef # None
  /\ Len(books) >= 3
  /\ \E i, j \in 1..Len(books) :
       /\ books[i] \in Range(CANON_66) /\ books[j] \notin Range(CANON_66)
       /\ FirstAt(books[j]) < FirstAt(books[i])

\* C20: parseRef returns none, or a reference whose document is in the
\* store's list and whose chapter is within 1..chapterCount(document).
C20_RefWithinStore ==
  (palette # None /\ palette[1].ref # None) =>
    LET r == palette[1].ref[1]
    IN /\ r.book \in Range(books)
       /\ 1 <= r.chapter
       /\ r.chapter <= chapterCount(r.book)

\* the id is numerically an integer within the Canon Table (1..66 in the
\* source, 1..Len(CANON_66) in the cut table)
IdIsCanonInteger(id) ==
  /\ ~id.nan /\ ~id.half /\ id.wraps = 0
  /\ 1 <= id.whole /\ id.whole <= Len(CANON_66)

\* the store holds row r under document b
HeldUnder(r, b) ==
  /\ Key(b, r.chapter) \in DOMAIN singleByRef[1]
  /\ \E v \in Range(singleByRef[1][Key(b, r.chapter)]) :
       v.verse = r.verse /\ v.text = stripMarkers(r.text, FALSE).text

\* C21: in single-source ingestion a row with no name field and an id field
\* (and a finite chapter and verse) is kept under the id-th Canon Table name
\* exactly when its id is numerically an integer within the table; for every
\* other id value the row is discarded.
C21_IdRowKeptIffCanonInteger ==
  singleByRef # None =>
    \A i \in 1..Len(IngestedRows) :
      LET r == IngestedRows[i]
      IN (r.name = NULL /\ ~r.bid.absent /\ IsFinite(r.chapter) /\ IsFinite(r.verse)) =>
           \A b \in Range(books) \cup Range(CANON_66) :
             HeldUnder(r, b) <=> (IdIsCanonInteger(r.bid) /\ b = CANON_66[r.bid.whole])

RECURSIVE StripMarks(_)
\* p with every <mark> and every </mark> deleted, as
\* p.replace(/<\/?mark>/g, '') deletes them
StripMarks(p) ==
  IF p = <<>> THEN <<>>
  ELSE IF IsPrefix(MarkOpen, p) THEN StripMarks(Drop(p, Len(MarkOpen)))
  ELSE IF IsPrefix(MarkClose, p) THEN StripMarks(Drop(p, Len(MarkClose)))
  ELSE <<Head(p)>> \o StripMarks(Tail(p))

\* C22: for every verse text and token list, deleting every <mark> and
\* </mark> from the highlighted preview yields exactly the escaped text, also
\* when a later token matches characters of a marker or of an escape entity
\* produced earlier.
C22_StrippedPreviewIsEscapedText ==
  preview # None => StripMarks(preview[1].previewHtml) = esc(preview[1].text)

\* C23: with every message delivered (and every fetch completed), every
\* search message the worker received after init eventually produces a hits
\* message, for any sequence of searches, overlapping ones included.
C23_EverySearchGetsHits ==
  \A n \in 1..MaxSearches :
    (Len(searches) >= n) ~> (Len(searches) >= n /\ Done(n))

\* the keys the worker can ask for
CanonKeys == {Key(BUILT_IN_CANON[i][1], c) : i \in 1..Len(BUILT_IN_CANON), c \in 1..3}

\* a need-chapter for key k is on its way to the page
NeedPosted(k) ==
  \E i \in 1..Len(toMain) :
    /\ toMain[i].type = "need-chapter"
    /\ toMain[i].book = k[1] /\ toMain[i].chapter = k[2]

\* a chapter-data for key k is on its way to the worker
DataPosted(k) ==
  \E i \in 1..Len(toWorker) :
    /\ toWorker[i].type = "chapter-data"
    /\ toWorker[i].book = k[1] /\ toWorker[i].chapter = k[2]

\* C24: with every fetch completed (with data or with failure) and every
\* message delivered, every need-chapter(document, chapter) the worker sends
\* is eventually answered by the page with a chapter-data for the same
\* (document, chapter).
C24_NeedChapterAnswered ==
  \A k \in CanonKeys : NeedPosted(k) ~> DataPosted(k)

\* _ingestSingle was called with this line's payload and no row of the
\* payload is usable
FailedIngestion(line) ==
  /\ line.src # "canon"
  /\ line.json # None
  /\ \A i \in 1..Len(payloadRows(line.json[1])) :
       rowToVerse(payloadRows(line.json[1])[i]) = None

\* C25: a single-source ingestion that finds no usable verse leaves the
\* store as it was before the attempt: the document list, the chapter-count
\* map, the resident chapter map and the memoization cache are unchanged, and
\* the source is not counted as loaded.
C25_FailedIngestionLeavesStore ==
  [][(Len(initLog') = Len(initLog) + 1 /\ FailedIngestion(initLog'[Len(initLog')]))
       => UNCHANGED <<books, bookChapters, singleByRef, cache, singleLoaded>>]_vars

\* an ingestion has failed on rows that were all discarded, and a later
\* source has filled the store
C25_Witness ==
  /\ initPc = "done"
  /\ books # <<>>
  /\ \E i \in 1..Len(initLog) :
       /\ FailedIngestion(initLog[i])
       /\ payloadRows(initLog[i].json[1]) # <<>>
       /\ ~initLog[i].ok
       /\ \E j \in (i + 1)..Len(initLog) : initLog[j].ok

====
